---- MODULE Spec2Model ----
(***************************************************************************)
(* QuanDA (src/QuanDA.ipynb): window-maximum extraction, the normalised    *)
(* two-column reference basis, batch peak extraction and the per-row NNLS  *)
(* fraction solve run through a joblib worker pool.                        *)
(*                                                                         *)
(* Floating-point values are modelled as exact rationals <<n, d>> (d > 0,  *)
(* lowest terms) extended with the IEEE specials NaN = <<0, 0>> and        *)
(* +-Inf = <<+-1, 0>>.  m/z values and window bounds are integers.         *)
(***************************************************************************)
EXTENDS Integers, Sequences, FiniteSets, TLC

VARIABLES
    heap,   \* the Python window lists by object identity (caller's and self.sel)
    self,   \* the QuanDA object: [built, sel, before, after, coef]
    op,     \* the function or method of the current call
    pc,     \* "idle" | "called" | "returned"
    args,   \* the arguments of the current call, as the caller holds them
    ret,    \* what the call returned or raised: [exc, val]
    pool    \* the joblib pool of a calc call: the task results in completion order

vars == <<heap, self, op, pc, args, ret, pool>>

----------------------------------------------------------------------------
(* Bounds of the model.                                                    *)

MaxMz == 2      \* m/z values are 1..MaxMz, window bounds 0..MaxMz+1
MaxInt == 2     \* intensities are 0..MaxInt
MaxWin == 2     \* a window list holds at most MaxWin windows
MaxRows == 2    \* a spectra list or peak matrix holds at most MaxRows rows
MaxJobs == 2    \* n_jobs is 1..MaxJobs
MaxPeak == 1    \* sample intensities are 0..MaxPeak

----------------------------------------------------------------------------
(* float64 arithmetic on exact rationals with NaN and Inf.                 *)

RECURSIVE GCD(_, _)
GCD(a, b) == IF b = 0 THEN a ELSE GCD(b, a % b)

Abs(a) == IF a < 0 THEN -a ELSE a

Sign(a) == IF a < 0 THEN -1 ELSE IF a > 0 THEN 1 ELSE 0

Norm(n, d) ==
    IF d = 0 THEN <<Sign(n), 0>>
    ELSE LET g == GCD(Abs(n), Abs(d))
             s == IF d < 0 THEN -1 ELSE 1
         IN  <<(s * n) \div g, (s * d) \div g>>

F(k) == <<k, 1>>

NaN == <<0, 0>>

IsNaN(x) == x[2] = 0 /\ x[1] = 0

IsFinite(x) == x[2] # 0

RAdd(a, b) ==
    IF IsNaN(a) \/ IsNaN(b) THEN NaN
    ELSE IF ~IsFinite(a) /\ ~IsFinite(b) THEN (IF a[1] = b[1] THEN a ELSE NaN)
    ELSE IF ~IsFinite(a) THEN a
    ELSE IF ~IsFinite(b) THEN b
    ELSE Norm(a[1] * b[2] + b[1] * a[2], a[2] * b[2])

RNeg(a) == <<-a[1], a[2]>>

RSub(a, b) == RAdd(a, RNeg(b))

RMul(a, b) ==
    IF IsNaN(a) \/ IsNaN(b) THEN NaN
    ELSE IF ~IsFinite(a) \/ ~IsFinite(b) THEN <<Sign(a[1]) * Sign(b[1]), 0>>
    ELSE Norm(a[1] * b[1], a[2] * b[2])

RDiv(a, b) ==
    IF IsNaN(a) \/ IsNaN(b) THEN NaN
    ELSE IF ~IsFinite(a) THEN (IF IsFinite(b) THEN <<a[1] * (IF b[1] < 0 THEN -1 ELSE 1), 0>> ELSE NaN)
    ELSE IF ~IsFinite(b) THEN F(0)
    ELSE IF b[1] = 0 THEN <<Sign(a[1]), 0>>
    ELSE Norm(a[1] * b[2], a[2] * b[1])

\* a < b; every comparison with NaN is false
RLt(a, b) ==
    /\ ~IsNaN(a) /\ ~IsNaN(b)
    /\ IF IsFinite(a) /\ IsFinite(b) THEN a[1] * b[2] < b[1] * a[2]
       ELSE IF ~IsFinite(a) /\ ~IsFinite(b) THEN a[1] < b[1]
       ELSE IF ~IsFinite(a) THEN a[1] < 0
       ELSE b[1] > 0

RLe(a, b) == ~IsNaN(a) /\ ~IsNaN(b) /\ ~RLt(b, a)

\* numpy's maximum of two values: NaN propagates
RMax2(a, b) == IF IsNaN(a) \/ IsNaN(b) THEN NaN ELSE IF RLt(a, b) THEN b ELSE a

\* ndarray.max() of a non-empty 1-d array
RECURSIVE ArrMax(_)
ArrMax(v) == IF Len(v) = 1 THEN v[1] ELSE RMax2(v[1], ArrMax(Tail(v)))

\* ndarray.sum() of a 1-d array
RECURSIVE ArrSum(_)
ArrSum(v) == IF Len(v) = 0 THEN F(0) ELSE RAdd(v[1], ArrSum(Tail(v)))

\* the dot product of two equally long 1-d arrays
RECURSIVE Dot(_, _)
Dot(u, v) == IF Len(u) = 0 THEN F(0) ELSE RAdd(RMul(u[1], v[1]), Dot(Tail(u), Tail(v)))

SeqsUpTo(S, n) == UNION {[1..k -> S] : k \in 0..n}

----------------------------------------------------------------------------
(* The results of a call: a value, or the exception it raised.             *)

Returned(v) == [exc |-> "none", val |-> v]

Raised(e) == [exc |-> e, val |-> <<>>]

NoRet == Raised("pending")

\* An ndarray as far as the code depends on it: element type and elements.
Array(dtype, v) == [dtype |-> dtype, v |-> v]

----------------------------------------------------------------------------
(* range_sel_max                                                           *)

\* boolean-mask indexing _int_[mask]: the elements of _int_ at the masked indices, in order
RECURSIVE MaskSelect(_, _, _)
MaskSelect(_int_, mask, j) ==
    IF j > Len(_int_) THEN <<>>
    ELSE (IF j \in mask THEN <<_int_[j]>> ELSE <<>>) \o MaskSelect(_int_, mask, j + 1)

\* The upper bound of the mask that a wrong comparison would build (<= for <).
max_sel_mask_inclusive(mz, _mz, _min, _max) ==
    {j \in 1..Len(_mz) : _mz[j] > _min /\ mz[j] <= _max}

\* (_mz > _min) & (mz < _max): the lower bound is tested on the parameter _mz, the
\* upper bound on mz, the enclosing range_sel_max's parameter.
max_sel_mask(mz, _mz, _min, _max) ==
    {j \in 1..Len(_mz) : _mz[j] > _min /\ mz[j] < _max}

\* max_sel: a Python int 0 for an empty selection, else the float maximum.
max_sel(mz, _mz, _int_, _min, _max) ==
    LET v == MaskSelect(_int_, max_sel_mask(mz, _mz, _min, _max), 1)
    IN  IF Len(v) = 0 THEN [py |-> "int", x |-> F(0)]
        ELSE [py |-> "float", x |-> ArrMax(v)]

\* np.asarray of the list of per-window values: int64 when every value is the
\* Python int 0, float64 as soon as one value is a float (or the list is empty).
range_sel_max(mz, int_, sels) ==
    LET vals == [i \in 1..Len(sels) |-> max_sel(mz, mz, int_, sels[i][1], sels[i][2])]
        dtype == IF Len(sels) > 0 /\ \A i \in 1..Len(sels) : vals[i].py = "int"
                 THEN "int64" ELSE "float64"
    IN  Array(dtype, [i \in 1..Len(sels) |-> vals[i].x])

----------------------------------------------------------------------------
(* Inputs a caller can pass.                                               *)

MzValues == 1..MaxMz

Bounds == 0..(MaxMz + 1)

Windows == {w \in Bounds \X Bounds : w[1] < w[2]}

WindowLists == SeqsUpTo(Windows, MaxWin)

\* Window lists as an analysis configures them: one region per isotopic peak,
\* each window starting and ending above the one before it.
DiagnosticLists ==
    {ws \in WindowLists :
        \A i \in 1..(Len(ws) - 1) : ws[i][1] < ws[i + 1][1] /\ ws[i][2] < ws[i + 1][2]}

Intensities == {F(k) : k \in 0..MaxInt}

\* A spectrum as measured: strictly increasing m/z, one finite non-negative
\* float intensity per m/z.
Spectra ==
    UNION {{[mz |-> m, int_ |-> y] :
               m \in {s \in [1..k -> MzValues] : \A j \in 1..(k - 1) : s[j] < s[j + 1]},
               y \in [1..k -> Intensities]} : k \in 0..MaxMz}

\* A pure-species reference spectrum: an intensity at every m/z of the grid.
ReferenceSpectra ==
    {[mz |-> [j \in 1..MaxMz |-> j], int_ |-> y] : y \in [1..MaxMz -> Intensities]}

NoArgs == [none |-> TRUE]

NoPool == <<>>

NoSelf == [built |-> FALSE, sel |-> 0, before |-> <<>>, after |-> <<>>, coef |-> <<>>]

CallerSel == 1

SelfSel == 2

----------------------------------------------------------------------------
(* QuanDA.__init__                                                         *)

\* deepcopy(sel) that would bind the caller's own list object instead of a copy.
deepcopy_alias(h, ref) == [heap |-> h, ref |-> ref]

\* deepcopy(sel): a new list object holding the same (immutable) window tuples.
deepcopy(h, ref) == [heap |-> [h EXCEPT ![SelfSel] = h[ref]], ref |-> SelfSel]

\* a /= a.max() without the division.
normalise_skip(a) == Returned(a.v)

\* a /= a.max() for the array a that range_sel_max returned: max() of an empty
\* array raises ValueError; the in-place true division of an int64 array raises
\* a casting TypeError; a float64 array is divided elementwise, 0/0 giving NaN.
normalise(a) ==
    IF Len(a.v) = 0 THEN Raised("ValueError")
    ELSE IF a.dtype = "int64" THEN Raised("TypeError")
    ELSE LET m == ArrMax(a.v)
         IN  Returned([i \in 1..Len(a.v) |-> RDiv(a.v[i], m)])

\* np.column_stack((before, after))
column_stack(before, after) == [i \in 1..Len(before) |-> <<before[i], after[i]>>]

\* The body of __init__ on heap h: the object it leaves and what it raised.
QuanDA_init(h, chem1, chem2, sel) ==
    LET cp == deepcopy(h, sel)
        before == normalise(range_sel_max(chem1.mz, chem1.int_, cp.heap[cp.ref]))
        after == normalise(range_sel_max(chem2.mz, chem2.int_, cp.heap[cp.ref]))
    IN  IF before.exc # "none" THEN [heap |-> h, self |-> NoSelf, ret |-> Raised(before.exc)]
        ELSE IF after.exc # "none" THEN [heap |-> h, self |-> NoSelf, ret |-> Raised(after.exc)]
        ELSE [heap |-> cp.heap,
              self |-> [built |-> TRUE, sel |-> cp.ref,
                        before |-> before.val, after |-> after.val,
                        coef |-> column_stack(before.val, after.val)],
              ret |-> Returned(<<>>)]

----------------------------------------------------------------------------
(* QuanDA.peak_sel                                                         *)

\* np.stack(peaks, 0): ValueError on an empty list, else the rows as a matrix,
\* int64 only when every row is.
stack(rows) ==
    IF Len(rows) = 0 THEN Raised("ValueError")
    ELSE Returned(Array(IF \A i \in 1..Len(rows) : rows[i].dtype = "int64"
                        THEN "int64" ELSE "float64",
                        [i \in 1..Len(rows) |-> rows[i].v]))

peak_sel(sel, data) ==
    stack([i \in 1..Len(data) |-> range_sel_max(data[i].mz, data[i].int_, sel)])

----------------------------------------------------------------------------
(* scipy.optimize.nnls for the two-column basis, and QuanDA.calc           *)

NSpecies == 2

Species == 1..NSpecies

Col(A, k) == [i \in 1..Len(A) |-> A[i][k]]

\* A^T A as <<a1.a1, a1.a2, a2.a2>> and A^T b as <<a1.b, a2.b>>
Gram(A) == <<Dot(Col(A, 1), Col(A, 1)), Dot(Col(A, 1), Col(A, 2)), Dot(Col(A, 2), Col(A, 2))>>

Atb(A, b) == <<Dot(Col(A, 1), b), Dot(Col(A, 2), b)>>

\* The gradient A^T b - A^T A x
Gradient(G, c, x) ==
    <<RSub(c[1], RAdd(RMul(G[1], x[1]), RMul(G[2], x[2]))),
      RSub(c[2], RAdd(RMul(G[2], x[1]), RMul(G[3], x[2])))>>

\* The least-squares solution over the columns in P, 0 elsewhere: the normal
\* equations A^T A [P, P] s = A^T b [P].
LstSq(G, c, P) ==
    IF P = {} THEN <<F(0), F(0)>>
    ELSE IF P = {1} THEN <<RDiv(c[1], G[1]), F(0)>>
    ELSE IF P = {2} THEN <<F(0), RDiv(c[2], G[3])>>
    ELSE <<RDiv(RSub(RMul(G[3], c[1]), RMul(G[2], c[2])),
                RSub(RMul(G[1], G[3]), RMul(G[2], G[2]))),
           RDiv(RSub(RMul(G[1], c[2]), RMul(G[2], c[1])),
                RSub(RMul(G[1], G[3]), RMul(G[2], G[2])))>>

NNLSMaxIter == 3 * NSpecies

\* The inner loop of the active-set method: while a coefficient of the passive
\* set is negative, step from x towards s until the first one reaches 0, drop
\* the coefficients at 0 from the passive set and solve again.
RECURSIVE nnls_inner(_, _, _, _, _, _)
nnls_inner(G, c, x, P, s, iter) ==
    LET neg == {k \in P : RLt(s[k], F(0))}
    IN  IF neg = {} \/ iter >= NNLSMaxIter THEN [x |-> s, P |-> P, iter |-> iter]
        ELSE LET step == [k \in neg |-> RDiv(x[k], RSub(x[k], s[k]))]
                 alpha == step[CHOOSE k \in neg : \A j \in neg : RLe(step[k], step[j])]
                 x2 == [k \in Species |->
                          RAdd(RMul(x[k], RSub(F(1), alpha)), RMul(alpha, s[k]))]
                 P2 == {k \in P : RLt(F(0), x2[k])}
             IN  nnls_inner(G, c, x2, P2, LstSq(G, c, P2), iter + 1)

\* The candidate with the largest gradient, the last one on a tie.
last_largest(w, cand) ==
    CHOOSE j \in cand : \A i \in cand : RLt(w[i], w[j]) \/ (w[i] = w[j] /\ j >= i)

\* argmax over the candidates: the largest gradient, the first one on a tie.
first_largest(w, cand) ==
    CHOOSE j \in cand : \A i \in cand : RLt(w[i], w[j]) \/ (w[i] = w[j] /\ j <= i)

\* The outer loop: while a coefficient outside the passive set has a positive
\* gradient, move the one with the largest gradient (the first, on a tie) into
\* the passive set and solve.
RECURSIVE nnls_outer(_, _, _, _, _)
nnls_outer(G, c, x, P, iter) ==
    LET w == Gradient(G, c, x)
        cand == {k \in Species \ P : RLt(F(0), w[k])}
    IN  IF cand = {} THEN Returned(x)
        ELSE LET P1 == P \cup {first_largest(w, cand)}
                 r == nnls_inner(G, c, x, P1, LstSq(G, c, P1), iter)
             IN  IF r.iter >= NNLSMaxIter THEN Raised("RuntimeError")
                 ELSE nnls_outer(G, c, r.x, r.P, r.iter)

\* nnls(A, b)[0]: asarray_chkfinite rejects NaN and Inf in A and b with ValueError.
nnls(A, b) ==
    IF (\E i \in 1..Len(A) : \E k \in Species : ~IsFinite(A[i][k]))
       \/ (\E i \in 1..Len(b) : ~IsFinite(b[i]))
    THEN Raised("ValueError")
    ELSE nnls_outer(Gram(A), Atb(A, b), <<F(0), F(0)>>, {}, 0)

\* The list joblib.Parallel would return if it kept the completion order.
parallel_results_unordered(done) == [i \in 1..Len(done) |-> done[i].r]

\* The list joblib.Parallel returns: the task results in task (row) order,
\* whatever the order of completion.
parallel_results(done) ==
    [i \in 1..Len(done) |-> done[CHOOSE j \in 1..Len(done) : done[j].i = i].r]

\* results /= results.sum(1, keepdims=True): each row divided by its own sum.
normalise_rows(rows) ==
    [i \in 1..Len(rows) |->
        [k \in Species |-> RDiv(rows[i][k], ArrSum(rows[i]))]]

\* What calc returns once the pool is through: an exception of a task is raised
\* again in the caller; np.stack raises ValueError when there is no row.
calc_return(done) ==
    IF \E j \in 1..Len(done) : done[j].r.exc # "none"
    THEN Raised(done[CHOOSE j \in 1..Len(done) : done[j].r.exc # "none"].r.exc)
    ELSE IF Len(done) = 0 THEN Raised("ValueError")
    ELSE LET results == parallel_results(done)
         IN  Returned(normalise_rows([i \in 1..Len(results) |-> results[i].val]))

\* The rows whose task is in a worker: the first n_jobs rows not yet completed.
RECURSIVE FirstOpen(_, _, _, _)
FirstOpen(i, rows, completed, n) ==
    IF i > rows \/ n = 0 THEN {}
    ELSE IF i \in completed THEN FirstOpen(i + 1, rows, completed, n)
    ELSE {i} \cup FirstOpen(i + 1, rows, completed, n - 1)

Completed(done) == {done[j].i : j \in 1..Len(done)}

----------------------------------------------------------------------------
(* The extraction function on its own.                                     *)

InitSel ==
    /\ heap = [id \in {CallerSel, SelfSel} |-> <<>>]
    /\ self = NoSelf
    /\ op = "range_sel_max"
    /\ pc = "called"
    /\ \E s \in Spectra, sels \in WindowLists :
          args = [mz |-> s.mz, int_ |-> s.int_, sels |-> sels]
    /\ ret = NoRet
    /\ pool = NoPool

RangeSelMax ==
    /\ op = "range_sel_max" /\ pc = "called"
    /\ ret' = Returned(range_sel_max(args.mz, args.int_, args.sels))
    /\ pc' = "returned"
    /\ UNCHANGED <<heap, self, op, args, pool>>

NextSel == RangeSelMax

SpecSel == InitSel /\ [][NextSel]_vars

----------------------------------------------------------------------------
(* Construction.                                                           *)

NewHeap(sel) == [id \in {CallerSel, SelfSel} |-> IF id = CallerSel THEN sel ELSE <<>>]

InitNew ==
    /\ \E sel \in DiagnosticLists : heap = NewHeap(sel)
    /\ self = NoSelf
    /\ op = "__init__"
    /\ pc = "called"
    /\ \E c1 \in ReferenceSpectra, c2 \in ReferenceSpectra :
          args = [chem1 |-> c1, chem2 |-> c2, sel |-> CallerSel]
    /\ ret = NoRet
    /\ pool = NoPool

Construct ==
    /\ op = "__init__" /\ pc = "called"
    /\ LET r == QuanDA_init(heap, args.chem1, args.chem2, args.sel)
       IN  /\ heap' = r.heap
           /\ self' = r.self
           /\ ret' = r.ret
    /\ pc' = "returned"
    /\ UNCHANGED <<op, args, pool>>

NextInit == Construct

SpecInit == InitNew /\ [][NextInit]_vars

----------------------------------------------------------------------------
(* The constructed object in use.                                          *)

\* The caller's window list as the notebook builds it: consecutive windows,
\* window i around the i-th isotopic peak (two of them here).
range_sel == <<<<0, 2>>, <<1, 3>>>>

\* Pure-species reference spectra over the two peaks.
PureD == [mz |-> <<1, 2>>, int_ |-> <<F(2), F(1)>>]

PureN == [mz |-> <<1, 2>>, int_ |-> <<F(1), F(2)>>]

\* Sample spectra: an intensity 0..MaxPeak at every m/z of the grid.
SampleSpectra ==
    {[mz |-> [j \in 1..MaxMz |-> j], int_ |-> y] :
        y \in [1..MaxMz -> {F(k) : k \in 0..MaxPeak}]}

\* Peak matrices a caller can pass to calc: float rows of one intensity per
\* window, or a row of NaN for a corrupt spectrum.
PeakRows(nwin) ==
    [1..nwin -> {F(k) : k \in 0..MaxPeak}] \cup {[w \in 1..nwin |-> NaN]}

PeakMatrices(nwin) == SeqsUpTo(PeakRows(nwin), MaxRows)

\* regressor = QuanDA((D_x, D_y), (N_x, N_y), range_sel) is about to run.
Init ==
    /\ heap = NewHeap(range_sel)
    /\ self = NoSelf
    /\ op = "__init__"
    /\ pc = "called"
    /\ args = [chem1 |-> PureD, chem2 |-> PureN, sel |-> CallerSel]
    /\ ret = NoRet
    /\ pool = NoPool

CallPeakSel ==
    /\ self.built /\ pc = "idle"
    /\ \E data \in SeqsUpTo(SampleSpectra, MaxRows) : args' = [data |-> data]
    /\ op' = "peak_sel"
    /\ pc' = "called"
    /\ ret' = NoRet
    /\ UNCHANGED <<heap, self, pool>>

PeakSel ==
    /\ op = "peak_sel" /\ pc = "called"
    /\ ret' = peak_sel(heap[self.sel], args.data)
    /\ pc' = "returned"
    /\ UNCHANGED <<heap, self, op, args, pool>>

CallCalc ==
    /\ self.built /\ pc = "idle"
    /\ \E B \in PeakMatrices(Len(self.coef)), n \in 1..MaxJobs :
          args' = [B |-> B, n_jobs |-> n]
    /\ op' = "calc"
    /\ pc' = "called"
    /\ ret' = NoRet
    /\ pool' = <<>>
    /\ UNCHANGED <<heap, self>>

\* regressor.calc(regressor.peak_sel(...)): calc on the matrix peak_sel returned.
CallCalcOnPeaks ==
    /\ self.built /\ pc = "returned" /\ op = "peak_sel" /\ ret.exc = "none"
    /\ \E n \in 1..MaxJobs : args' = [B |-> ret.val.v, n_jobs |-> n]
    /\ op' = "calc"
    /\ pc' = "called"
    /\ ret' = NoRet
    /\ pool' = <<>>
    /\ UNCHANGED <<heap, self>>

\* A worker completes the solve of row i; a task that raised ends the dispatch.
Complete ==
    /\ op = "calc" /\ pc = "called"
    /\ \A j \in 1..Len(pool) : pool[j].r.exc = "none"
    /\ \E i \in FirstOpen(1, Len(args.B), Completed(pool), args.n_jobs) :
          pool' = Append(pool, [i |-> i, r |-> nnls(self.coef, args.B[i])])
    /\ UNCHANGED <<heap, self, op, pc, args, ret>>

CalcReturn ==
    /\ op = "calc" /\ pc = "called"
    /\ \/ Len(pool) = Len(args.B)
       \/ \E j \in 1..Len(pool) : pool[j].r.exc # "none"
    /\ ret' = calc_return(pool)
    /\ pc' = "returned"
    /\ UNCHANGED <<heap, self, op, args, pool>>

\* The caller is through with the result of the call.
Resume ==
    /\ pc = "returned"
    /\ op' = "none"
    /\ pc' = "idle"
    /\ args' = NoArgs
    /\ ret' = NoRet
    /\ pool' = NoPool
    /\ UNCHANGED <<heap, self>>

\* The caller changes the list it passed as sel (range_sel.clear()).
MutateCallerSel ==
    /\ pc # "called"
    /\ Len(heap[CallerSel]) > 0
    /\ heap' = [heap EXCEPT ![CallerSel] = <<>>]
    /\ UNCHANGED <<self, op, pc, args, ret, pool>>

Next ==
    Construct \/ CallPeakSel \/ PeakSel \/ CallCalc \/ CallCalcOnPeaks \/ Complete \/ CalcReturn
        \/ Resume \/ MutateCallerSel

Spec == Init /\ [][Next]_vars

----------------------------------------------------------------------------
(* The end-to-end scenario: one diagnostic window, pure D of intensity 100 *)
(* and pure N of intensity 50 in it (m/z in tenths).                       *)

E2EWindow == <<20074, 20084>>

E2EPoint(mz, y) == [mz |-> <<mz>>, int_ |-> <<F(y)>>]

E2ESamples == {E2EPoint(mz, y) : mz \in {20070, 20078, 20080}, y \in {0, 50, 90, 100}}

InitE2E ==
    /\ heap = NewHeap(<<E2EWindow>>)
    /\ self = NoSelf
    /\ op = "__init__"
    /\ pc = "called"
    /\ args = [chem1 |-> E2EPoint(20078, 100), chem2 |-> E2EPoint(20078, 50), sel |-> CallerSel]
    /\ ret = NoRet
    /\ pool = NoPool

CallPeakSelSample ==
    /\ self.built /\ pc = "idle"
    /\ \E data \in SeqsUpTo(E2ESamples, MaxRows) : args' = [data |-> data]
    /\ op' = "peak_sel"
    /\ pc' = "called"
    /\ ret' = NoRet
    /\ UNCHANGED <<heap, self, pool>>

NextE2E ==
    Construct \/ Resume \/ CallPeakSelSample \/ PeakSel \/ CallCalcOnPeaks \/ Complete
        \/ CalcReturn

SpecE2E == InitE2E /\ [][NextE2E]_vars

----------------------------------------------------------------------------
(* Reference definitions the properties are stated with.                   *)

\* The indices of the spectrum whose m/z lies strictly inside window w.
InWindow(mz, w) == {j \in 1..Len(mz) : mz[j] > w[1] /\ mz[j] < w[2]}

\* The largest intensity inside window w, 0 when no point lies inside.
WindowMax(mz, int_, w) ==
    LET inside == InWindow(mz, w)
    IN  IF inside = {} THEN F(0)
        ELSE CHOOSE m \in {int_[j] : j \in inside} : \A j \in inside : RLe(int_[j], m)

Extracted(chem, sels) == [i \in 1..Len(sels) |-> WindowMax(chem.mz, chem.int_, sels[i])]

ColumnMax(col) == CHOOSE m \in {col[i] : i \in 1..Len(col)} : \A i \in 1..Len(col) : RLe(col[i], m)

\* The extracted column of a pure spectrum has maximum 0.
Degenerate(chem, sels) == Len(sels) > 0 /\ ColumnMax(Extracted(chem, sels)) = F(0)

InitReturned == op = "__init__" /\ pc = "returned"

CalcReturned == op = "calc" /\ pc = "returned"

\* The fractions of a coefficient pair: each coefficient over their sum.
Fractions(x) == [k \in Species |-> RDiv(x[k], RAdd(x[1], x[2]))]

\* Row i of B cannot be solved to fractions: the solver raises, or the
\* coefficients sum to 0.
RowFails(A, b) == nnls(A, b).exc # "none" \/ ArrSum(nnls(A, b).val) = F(0)

----------------------------------------------------------------------------
(* C1: range_sel_max returns one value per window, in window order; the    *)
(* value for window (lo, hi) is the maximum intensity over exactly the     *)
(* indices whose own m/z is > lo and < hi, and 0 when there is none.       *)
C1_WindowMaxima ==
    (op = "range_sel_max" /\ pc = "returned") =>
        /\ ret.exc = "none"
        /\ Len(ret.val.v) = Len(args.sels)
        /\ \A i \in 1..Len(args.sels) :
              ret.val.v[i] = WindowMax(args.mz, args.int_, args.sels[i])

\* Two windows: one holding two points of different intensities, the larger
\* one first, and one holding no point; a point sits on a window's upper bound.
C1_Witness ==
    /\ op = "range_sel_max" /\ pc = "returned"
    /\ Len(args.sels) = 2
    /\ Cardinality(InWindow(args.mz, args.sels[1])) = 2
    /\ RLt(args.int_[2], args.int_[1])
    /\ InWindow(args.mz, args.sels[2]) = {}
    /\ \E j \in 1..Len(args.mz) : args.mz[j] = args.sels[2][2]
    /\ ret.val.v = <<args.int_[1], F(0)>>

----------------------------------------------------------------------------
(* C4: constructing QuanDA with a pure spectrum whose extracted column has *)
(* maximum 0 fails with a DegenerateReferenceError and never leaves a      *)
(* basis that holds NaN or Inf.                                            *)
C4_DegenerateReferenceRaises ==
    (InitReturned /\ (Degenerate(args.chem1, heap[CallerSel])
                        \/ Degenerate(args.chem2, heap[CallerSel]))) =>
        /\ ret.exc = "DegenerateReferenceError"
        /\ \A i \in 1..Len(self.coef) : \A k \in Species : IsFinite(self.coef[i][k])

----------------------------------------------------------------------------
(* C8: for non-degenerate pure spectra the basis has one row per window    *)
(* and two columns, column 0 chem1's window maxima over their maximum and  *)
(* column 1 chem2's over theirs; each column's maximum is exactly 1 and    *)
(* every entry lies in [0, 1].                                             *)
C8_NormalisedBasis ==
    LET sels == heap[CallerSel]
        e1 == Extracted(args.chem1, sels)
        e2 == Extracted(args.chem2, sels)
        m1 == ColumnMax(e1)
        m2 == ColumnMax(e2)
    IN  (InitReturned /\ Len(sels) > 0 /\ RLt(F(0), m1) /\ RLt(F(0), m2)) =>
            /\ ret.exc = "none"
            /\ self.built
            /\ Len(self.coef) = Len(sels)
            /\ \A i \in 1..Len(sels) :
                  /\ Len(self.coef[i]) = NSpecies
                  /\ self.coef[i][1] = RDiv(e1[i], m1)
                  /\ self.coef[i][2] = RDiv(e2[i], m2)
                  /\ \A k \in Species :
                        RLe(F(0), self.coef[i][k]) /\ RLe(self.coef[i][k], F(1))
            /\ \A k \in Species : \E i \in 1..Len(sels) : self.coef[i][k] = F(1)

\* A two-window basis with an entry strictly between 0 and 1 and an entry 0.
C8_Witness ==
    /\ InitReturned /\ self.built
    /\ Len(self.coef) = 2
    /\ self.coef[1] = <<F(1), F(0)>>
    /\ self.coef[2] = <<<<1, 2>>, F(1)>>

----------------------------------------------------------------------------
(* C7: peak_sel returns, for every list of n >= 0 spectra, a matrix of n   *)
(* rows, row i being range_sel_max of the i-th spectrum over the stored    *)
(* windows; an empty list yields a matrix of 0 rows, not an error.         *)
C7_PeakRows ==
    (op = "peak_sel" /\ pc = "returned") =>
        /\ ret.exc = "none"
        /\ Len(ret.val.v) = Len(args.data)
        /\ \A i \in 1..Len(args.data) :
              /\ Len(ret.val.v[i]) = Len(heap[self.sel])
              /\ \A w \in 1..Len(heap[self.sel]) :
                    ret.val.v[i][w] =
                        WindowMax(args.data[i].mz, args.data[i].int_, heap[self.sel][w])

----------------------------------------------------------------------------
(* C2: every row calc returns has non-negative entries that sum to 1.      *)
C2_FractionRows ==
    (CalcReturned /\ ret.exc = "none") =>
        \A i \in 1..Len(ret.val) :
            /\ \A k \in Species : RLe(F(0), ret.val[i][k])
            /\ ArrSum(ret.val[i]) = F(1)

----------------------------------------------------------------------------
(* C5: when the coefficients fitted for a row of B sum to 0, calc fails    *)
(* with a SingularFitError instead of returning NaN fractions.             *)
C5_SingularFitRaises ==
    (CalcReturned /\ \E i \in 1..Len(args.B) :
                        /\ nnls(self.coef, args.B[i]).exc = "none"
                        /\ ArrSum(nnls(self.coef, args.B[i]).val) = F(0)) =>
        ret.exc = "SingularFitError"

----------------------------------------------------------------------------
(* C6: a row whose solve fails neither aborts the batch nor changes or     *)
(* withholds the other rows: every non-failing row is returned with the    *)
(* value it has without the failing row.                                   *)
C6_FailureIsolated ==
    (CalcReturned /\ \E i \in 1..Len(args.B) : RowFails(self.coef, args.B[i])) =>
        /\ ret.exc = "none"
        /\ \A i \in 1..Len(args.B) :
              ~RowFails(self.coef, args.B[i]) =>
                  ret.val[i] = Fractions(nnls(self.coef, args.B[i]).val)

----------------------------------------------------------------------------
(* C3: for every B, worker count and completion order, calc returns when   *)
(* every row's solve does, and row i of its result is the normalised NNLS  *)
(* solution of row i of B.                                                 *)
C3_RowOrder ==
    CalcReturned =>
        /\ (Len(args.B) > 0 /\ \A i \in 1..Len(args.B) :
                                  nnls(self.coef, args.B[i]).exc = "none")
              => ret.exc = "none"
        /\ ret.exc = "none" =>
              /\ Len(ret.val) = Len(args.B)
              /\ \A i \in 1..Len(args.B) :
                    ret.val[i] = Fractions(nnls(self.coef, args.B[i]).val)

\* Two workers, the solve of row 2 completed before that of row 1, and the
\* two rows have different fractions.
C3_Witness ==
    /\ CalcReturned /\ ret.exc = "none"
    /\ args.n_jobs = 2
    /\ Len(pool) = 2 /\ pool[1].i = 2 /\ pool[2].i = 1
    /\ ret.val[1] = <<F(1), F(0)>>
    /\ ret.val[2] = <<<<1, 2>>, <<1, 2>>>>

----------------------------------------------------------------------------
(* C10: once the object is built no step changes its window list or its    *)
(* basis, not even the caller changing the list it passed; no operation    *)
(* changes an argument or the caller's window list; peak_sel extracts      *)
(* over the windows passed at construction.                                *)
C10_Frame ==
    [][/\ self.built => (self' = self /\ heap'[self.sel] = heap[self.sel])
       /\ pc = "called" => (args' = args /\ heap'[CallerSel] = heap[CallerSel])
       /\ (op = "peak_sel" /\ pc = "called") => ret' = peak_sel(range_sel, args.data)
      ]_vars

\* peak_sel has returned rows after the caller emptied its own window list.
C10_Witness ==
    /\ op = "peak_sel" /\ pc = "returned" /\ ret.exc = "none"
    /\ heap[CallerSel] = <<>>
    /\ heap[self.sel] = range_sel
    /\ Len(ret.val.v[1]) = Len(range_sel)

----------------------------------------------------------------------------
(* C9: in the end-to-end scenario (pure D 100, pure N 50, sample 90 in the *)
(* one window) the fitted coefficients minimise |100 x_D + 50 x_N - 90|    *)
(* over x >= 0, and their fractions are those of pure D.                   *)

\* Coefficient pairs to compare a fit against: tenths from 0 to 2, and the fit itself.
E2ECandidates == {<<<<a, 10>>, <<b, 10>>>> : a \in 0..20, b \in 0..20}

E2EResidual(cD, cN, x, b) ==
    LET r == RSub(RAdd(RMul(F(cD), x[1]), RMul(F(cN), x[2])), F(b))
    IN  IF RLt(r, F(0)) THEN RNeg(r) ELSE r

E2ESolved == CalcReturned /\ args.B = <<<<F(90)>>>> /\ ret.exc = "none"

====
